---- MODULE Spec2Model ----
(***************************************************************************)
(* The Irish political news pipeline of news-aggregator/:                  *)
(*   RSSFetcher -> DatabaseChecker -> LLMArticleFilter -> ContentScraper   *)
(*   -> AIScorer (score_batch, get_top_articles) -> AIImageGenerator       *)
(*   -> _save_articles_to_database / _save_to_json                         *)
(* as driven by IrishPoliticsAggregator.run_daily_aggregation.             *)
(*                                                                         *)
(* An article is a Python dict that the stages pass by reference; here an  *)
(* article is its index in `art` (the object), and every list of articles  *)
(* is a sequence of such indices, so that two list slots naming the same   *)
(* dict stay the same article.                                             *)
(***************************************************************************)
EXTENDS Integers, Sequences, FiniteSets, TLC

(* ------------------------------ bounds -------------------------------- *)
\* a feed delivers 0..MaxSmall entries, or just over one of the two limits of
\* the pipeline (ScrapeLimit, BatchSize); the datastore holds links up to
\* MaxSmall; in a per-item stage the first MaxSmall items may get any answer
MaxSmall == 2
\* in the first run at most MaxDev answers of the outside world (a flag of the
\* configuration, the datastore query, a model response, a page fetch, an
\* image call, a remote write, the snapshot write) differ from the nominal one
MaxDev == 1
\* longest explicit index list a relevance response carries
MaxRespLen == 2
\* cron or the Task Scheduler starts run_aggregator.py at most MaxRuns times
MaxRuns == 2
\* a component called on its own gets a list of at most MaxCallLen articles
\* and a batch size of at most MaxCallBatch
MaxCallLen == 4
MaxCallBatch == 3

(* -------------------------- program constants ------------------------- *)
ScrapeLimit == 30
BatchSize == 50
TopCount == 5
MinContentLength == 200
MaxContentChars == 8000

VARIABLES
    pc,                 \* position of run_daily_aggregation
    run,                \* number of the run under way
    hist,               \* what the earlier runs did, by link
    args,               \* batch_size of filter_articles, count of get_top_articles, and
                        \* for a component called on its own the answers it will get
    config,             \* the loaded configuration (the two flags the run reads)
    db,                 \* urls of news_articles rows inside the lookback window
    art,                \* the article dicts, by identity
    raw_articles, new_articles, filtered_articles, articles_to_scrape,
    scraped_articles, scored_articles, top_articles,
    stats,              \* the stats dict
    devs,               \* answers that differed from the nominal one so far
    db_queries,         \* outcomes of get_existing_urls queries of this run
    filter_calls,       \* one record per _filter_batch call
    scrape_calls,       \* one record per scrape_article call
    score_calls,        \* one record per score_article call
    posts,              \* one record per article of _save_articles_to_database
    snapshot,           \* the files _save_to_json of this run wrote
    all_articles,       \* all_articles of fetch_all_feeds, before _deduplicate_articles
    image_calls         \* one record per generate_article_image call

vars == << pc, run, hist, args, config, db, art, raw_articles, new_articles, filtered_articles,
           articles_to_scrape, scraped_articles, scored_articles, top_articles,
           stats, devs, db_queries, filter_calls, scrape_calls,
           score_calls, posts, snapshot, all_articles, image_calls >>

(* ------------------------------ helpers ------------------------------- *)
Min(a, b) == IF a < b THEN a ELSE b

Range(s) == { s[i] : i \in 1..Len(s) }

\* s[:n] of Python
Prefix(s, n) == SubSeq(s, 1, Min(n, Len(s)))

\* sequences over S of length at most n
SeqUpTo(S, n) == UNION { [1..k -> S] : k \in 0..n }

RECURSIVE Flatten(_)
Flatten(ss) == IF ss = << >> THEN << >> ELSE Head(ss) \o Flatten(Tail(ss))

\* t is s with some elements removed (order and multiplicity kept)
RECURSIVE IsSubsequence(_, _)
IsSubsequence(t, s) ==
    IF t = << >> THEN TRUE
    ELSE IF s = << >> THEN FALSE
    ELSE IF Head(t) = Head(s) THEN IsSubsequence(Tail(t), Tail(s))
    ELSE IsSubsequence(t, Tail(s))

(* ---------------------------- RSSFetcher ------------------------------ *)
\* A title is [base, form]: the words, and how they are written: "plain",
\* "caps" (other case), "padded" (outer whitespace), "spaced" (inner whitespace)
TitleForms == {"plain", "caps", "padded", "spaced"}

\* title.lower().strip(): folds case and outer whitespace, nothing else;
\* the variant compares the titles as they are written
NormalizeTitle_exact(t) == t

NormalizeTitle(t) ==
    [base |-> t.base, form |-> IF t.form \in {"caps", "padded"} THEN "plain" ELSE t.form]

\* _deduplicate_articles: first article of each normalised title, input order
RECURSIVE DedupFrom(_, _)
DedupFrom(entries, seen) ==
    IF entries = << >> THEN << >>
    ELSE LET n == NormalizeTitle(Head(entries).title)
         IN  IF n \in seen THEN DedupFrom(Tail(entries), seen)
             ELSE << Head(entries) >> \o DedupFrom(Tail(entries), seen \cup {n})

deduplicate_articles(entries) == DedupFrom(entries, {})

\* A source is [url, raises, entries]: `url` says that its entry of
\* rss_feeds holds the key 'url', `raises` that fetching it raises, `entries`
\* is what the feed lists.
\* fetch_feed: one article per entry, with the source's name
fetch_feed(feed, k) ==
    [i \in 1..Len(feed.entries) |->
        [title |-> feed.entries[i].title, link |-> feed.entries[i].link, source |-> k]]

\* the try of fetch_all_feeds: a source whose fetch raises contributes
\* nothing; the variant ends the loop at the first source that raises
FeedArticles_aborting(feeds, k) ==
    IF \E i \in 1..k : feeds[i].raises THEN << >> ELSE fetch_feed(feeds[k], k)

FeedArticles(feeds, k) == IF feeds[k].raises THEN << >> ELSE fetch_feed(feeds[k], k)

\* all_articles when the loop over the sources is through
AllArticles(feeds) == Flatten([k \in 1..Len(feeds) |-> FeedArticles(feeds, k)])

\* feed_info['url'] stands before the try: a source without 'url' raises
\* KeyError out of fetch_all_feeds
FetchRaises(feeds) == \E k \in 1..Len(feeds) : ~feeds[k].url

\* the sources ahead of the first one without 'url'
BeforeBadSource(feeds) ==
    SubSeq(feeds, 1, Cardinality({ k \in 1..Len(feeds) : \A i \in 1..k : feeds[i].url }))

fetch_all_feeds(feeds) == deduplicate_articles(AllArticles(feeds))

\* the dict fetch_feed builds for one entry. `keys` holds the keys later
\* stages add to the dict; the value fields below mean something only while
\* their key is in `keys`.
NewArticle(entry) ==
    [ title |-> entry.title, link |-> entry.link, source |-> entry.source,
      published |-> "parsed", summary |-> "excerpt", keys |-> {},
      content |-> 0, top_image |-> FALSE,
      ai_score |-> 0, ai_score_is_number |-> TRUE, ai_summary |-> "",
      score_breakdown |-> "map", image |-> "" ]

\* feed contents of a run: one source listing n entries with distinct titles and links
FeedSizes == (0..MaxSmall) \cup {ScrapeLimit + 1, BatchSize + 1}

FeedOf(n) ==
    << [ url |-> TRUE, raises |-> FALSE,
         entries |-> [i \in 1..n |-> [title |-> [base |-> i, form |-> "plain"], link |-> i]] ] >>

NominalFeeds ==
    { FeedOf(n) : n \in FeedSizes } \cup { << [url |-> TRUE, raises |-> TRUE, entries |-> << >>] >> }

\* two entries, the second with any title and any link among those of the
\* two stories (link 0 is an entry without link), from one source; or a
\* source of two entries after one whose fetch raises, or before one whose
\* configuration has no 'url'
FeedVariants ==
    LET first == [title |-> [base |-> 1, form |-> "plain"], link |-> 1]
        seconds == { [title |-> [base |-> b, form |-> f], link |-> l] :
                       b \in 1..2, f \in TitleForms, l \in 0..2 }
        third == [title |-> [base |-> 3, form |-> "plain"], link |-> 3]
    IN  { << [url |-> TRUE, raises |-> FALSE, entries |-> << first, e >>] >> : e \in seconds }
        \cup { << [url |-> TRUE, raises |-> TRUE, entries |-> << third >>], FeedOf(2)[1] >>,
                << FeedOf(2)[1], [url |-> FALSE, raises |-> FALSE, entries |-> << third >>] >> }

FeedWorlds == NominalFeeds \cup FeedVariants

FeedDevs(feeds) == IF feeds \in NominalFeeds THEN 0 ELSE 1

(* -------------------------- DatabaseChecker --------------------------- *)
\* a query is [raises, urls]: urls are the rows' urls, raises says that the
\* query failed and gave none of them to the caller
\* get_existing_urls: the urls of the rows, or set() when the query raises
get_existing_urls_noexcept(query) == query.urls

get_existing_urls(query) == IF query.raises THEN {} ELSE query.urls

\* the list comprehension of filter_new_articles
KeepNew_all(articles, existing_urls) == articles

KeepNew_inverted(articles, existing_urls) ==
    SelectSeq(articles, LAMBDA a : art[a].link \in existing_urls)

KeepNew(articles, existing_urls) ==
    SelectSeq(articles, LAMBDA a : art[a].link \notin existing_urls)

\* filter_new_articles: no query at all for an empty list
filter_new_articles(articles, query) ==
    IF articles = << >> THEN << >>
    ELSE KeepNew(articles, get_existing_urls(query))

(* -------------------------- LLMArticleFilter -------------------------- *)
\* A model response is [t, items]:
\*   "raise"      the completion call raises (or returns no text)
\*   "invalid"    text that json.loads rejects
\*   "nonobject"  JSON that is no object (data.get raises)
\*   "scalar"     an object whose 'relevant' is not iterable
\*   "nokey"      an object without 'relevant' (data.get gives [])
\*   "baddigit"   an object whose 'relevant' list holds a string that
\*                str.isdigit accepts and int rejects (int raises)
\*   "list"       an object whose 'relevant' is the list `items`
\* An item is [k, v]: an int v, the string of the digits of v ("str"), or
\* anything else ("other": a float, null, a non-digit string).
Item(k, v) == [k |-> k, v |-> v]
Resp(t, items) == [t |-> t, items |-> items]

\* isinstance(i, (int, str)) and str(i).isdigit(): "-1".isdigit() is False
ItemIsIndex(it) == it.k \in {"int", "str"} /\ it.v >= 0

\* _parse_filter_results: every exception is caught and gives []
parse_filter_results(resp) ==
    IF resp.t = "list"
    THEN LET kept == SelectSeq(resp.items, ItemIsIndex)
         IN  [j \in 1..Len(kept) |-> kept[j].v]
    ELSE << >>

\* [articles[i] for i in relevant_indices if i < len(articles)]
PickInRange_failing(articles, relevant_indices) ==
    IF \E j \in 1..Len(relevant_indices) : relevant_indices[j] >= Len(articles)
    THEN << >>
    ELSE [j \in 1..Len(relevant_indices) |-> articles[relevant_indices[j] + 1]]

PickInRange(articles, relevant_indices) ==
    LET inr == SelectSeq(relevant_indices, LAMBDA i : i < Len(articles))
    IN  [j \in 1..Len(inr) |-> articles[inr[j] + 1]]

\* _filter_batch: only an exception of the call itself reaches the outer handler
filter_batch_no_fallback(articles, resp) ==
    PickInRange(articles, parse_filter_results(resp))

filter_batch(articles, resp) ==
    IF resp.t = "raise" THEN articles
    ELSE PickInRange(articles, parse_filter_results(resp))

\* range(0, len(articles), batch_size) and articles[i:i+batch_size]
NumBatches_floor(n, b) == n \div b

NumBatches(n, b) == (n + b - 1) \div b

BatchOf(articles, b, k) == SubSeq(articles, (k - 1) * b + 1, Min(k * b, Len(articles)))

\* filter_articles, resps[k] being the model's answer to batch k
filter_articles(articles, b, resps) ==
    IF articles = << >> THEN << >>
    ELSE Flatten([k \in 1..NumBatches(Len(articles), b) |->
                    filter_batch(BatchOf(articles, b, k), resps[k])])

\* the _filter_batch calls filter_articles makes
FilterCallsOf(articles, b, resps) ==
    IF articles = << >> THEN << >>
    ELSE [k \in 1..NumBatches(Len(articles), b) |->
            [ batch |-> BatchOf(articles, b, k), resp |-> resps[k].t,
              out |-> filter_batch(BatchOf(articles, b, k), resps[k]) ]]

\* the answers considered for a batch of n articles
ItemChoices(n) ==
    { Item("int", v) : v \in {-1, 0, 1, n} } \cup { Item("str", 0), Item("other", 0) }

AllIndices(n) == [j \in 1..n |-> Item("int", j - 1)]

FilterResponses(n) ==
    { Resp(t, << >>) : t \in {"raise", "invalid", "nonobject", "scalar", "nokey", "baddigit"} }
    \cup { Resp("list", s) : s \in SeqUpTo(ItemChoices(n), MaxRespLen) }
    \cup { Resp("list", AllIndices(n)) }

\* one answer per batch
RECURSIVE AnswersFor(_, _, _)
AnswersFor(articles, b, k) ==
    IF k = 0 THEN { << >> }
    ELSE { Append(r, x) : r \in AnswersFor(articles, b, k - 1),
                          x \in FilterResponses(Len(BatchOf(articles, b, k))) }

NominalResp(n) == Resp("list", AllIndices(n))

FilterDevs(articles, b, resps) ==
    Cardinality({ k \in DOMAIN resps : resps[k] # NominalResp(Len(BatchOf(articles, b, k))) })

FilterAnswers(articles, b, r) ==
    { x \in AnswersFor(articles, b, NumBatches(Len(articles), b)) :
        FilterDevs(articles, b, x) <= r }

(* --------------------------- ContentScraper --------------------------- *)
\* A strategy's result is the length of the text it returns, 0 when it
\* returns None for want of text, and Raised when its download or its parser
\* raised and the handler of the strategy returned None.  Links are positive
\* numbers for http urls and 0 for the empty string.
Raised == -1

IsHttpUrl(url) == url > 0

\* result and len(result.get('content', '')) >= self.min_content_length
Sufficient_any(len) == len > 0

Sufficient_strict(len) == len > 0 /\ len > MinContentLength

Sufficient(len) == len > 0 /\ len >= MinContentLength

\* scrape_article: [ok, content, via, tried]; `tried` are the strategies run
scrape_article_unguarded(url, o) ==
    IF ~IsHttpUrl(url) THEN [ok |-> FALSE, content |-> 0, via |-> 0, tried |-> {}]
    ELSE IF o.s1 = Raised THEN [ok |-> FALSE, content |-> 0, via |-> 0, tried |-> {1}]
    ELSE IF Sufficient(o.s1) THEN [ok |-> TRUE, content |-> o.s1, via |-> 1, tried |-> {1}]
    ELSE IF Sufficient(o.s2) THEN [ok |-> TRUE, content |-> o.s2, via |-> 2, tried |-> {1, 2}]
    ELSE [ok |-> FALSE, content |-> 0, via |-> 0, tried |-> {1, 2}]

scrape_article(url, o) ==
    IF ~IsHttpUrl(url) THEN [ok |-> FALSE, content |-> 0, via |-> 0, tried |-> {}]
    ELSE IF Sufficient(o.s1) THEN [ok |-> TRUE, content |-> o.s1, via |-> 1, tried |-> {1}]
    ELSE IF Sufficient(o.s2) THEN [ok |-> TRUE, content |-> o.s2, via |-> 2, tried |-> {1, 2}]
    ELSE [ok |-> FALSE, content |-> 0, via |-> 0, tried |-> {1, 2}]

\* scrape_batch: the articles whose scrape_article returned data, in order
scrape_batch(articles, outs) ==
    LET idx == SelectSeq([j \in 1..Len(articles) |-> j],
                         LAMBDA j : scrape_article(art[articles[j]].link, outs[j]).ok)
    IN  [j \in 1..Len(idx) |-> articles[idx[j]]]

\* article['scraped_content'] = ...; article['content'] = ... of scrape_batch.
\* The same dict may sit in several slots; the last slot that succeeds wins.
RECURSIVE ScrapeWrites(_, _, _, _)
ScrapeWrites(a, articles, outs, j) ==
    IF j = 0 THEN a
    ELSE LET id == articles[j]
             r == scrape_article(a[id].link, outs[j])
             before == ScrapeWrites(a, articles, outs, j - 1)
         IN  IF r.ok
             THEN [before EXCEPT ![id].keys = @ \cup {"scraped_content", "content"},
                                 ![id].content = r.content,
                                 ![id].top_image = (r.via = 1 /\ outs[j].img)]
             ELSE before

ScrapeCallsOf(articles, outs) ==
    [j \in 1..Len(articles) |->
        [ article |-> articles[j], url |-> art[articles[j]].link,
          s1 |-> outs[j].s1, s2 |-> outs[j].s2,
          tried |-> scrape_article(art[articles[j]].link, outs[j]).tried,
          ok |-> scrape_article(art[articles[j]].link, outs[j]).ok ]]

\* what a strategy may give: an exception, nothing, a text one character
\* short, a text of just the minimum; strategy 1 also a text longer than the
\* window of the scorer
ContentLens == {0, MinContentLength - 1, MinContentLength}

NominalScrape == [s1 |-> MinContentLength, s2 |-> 0, img |-> TRUE]

\* strategy 2 and the page image are drawn only where the code looks at
\* them; an exception is paired with an exception, a short text and a
\* sufficient one
ScrapeOutcomes ==
    { [s1 |-> MinContentLength, s2 |-> 0, img |-> i] : i \in BOOLEAN }
    \cup { [s1 |-> MaxContentChars + 1, s2 |-> 0, img |-> FALSE] }
    \cup { [s1 |-> MinContentLength - 1, s2 |-> l2, img |-> FALSE] : l2 \in ContentLens \cup {Raised} }
    \cup { [s1 |-> 0, s2 |-> l2, img |-> FALSE] : l2 \in {0, MinContentLength} }
    \cup { [s1 |-> Raised, s2 |-> l2, img |-> FALSE] : l2 \in {Raised, MinContentLength} }

\* how many answers of f differ from the nominal one
DevCount(f, nominal) == Cardinality({ j \in DOMAIN f : f[j] # nominal })

\* per-item answers of a stage with n items: any answer on the first MaxSmall
\* items, at most r of them not the nominal one
SlotInputs(n, choices, nominal, r) ==
    { [j \in 1..n |-> IF j <= MaxSmall THEN f[j] ELSE nominal] :
        f \in { g \in [1..Min(n, MaxSmall) -> choices \cup {nominal}] :
                  DevCount(g, nominal) <= r } }

(* ------------------------------ AIScorer ------------------------------ *)
\* A scoring response is [t, overall, summary]:
\*   "raise"    the completion call raises
\*   "invalid"  text json.loads rejects (JSONDecodeError, or no fence match)
\*   "missing"  JSON lacking one of summary, scores, overall_score
\*   "valid"    all three present, overall_score a number; summary is "text"
\*              or "null" (anything that is no string)
\*   "nonnumeric"  all three present, overall_score no number (null)
\* `scores` is the kind of the value of 'scores': "map" (an object of
\* sub-scores), "map_td" (an object that also holds mentions_td: true, td_name
\* and party) or "nomap" (a list, a string, null); `td` says that the response
\* itself holds mentions_td: true with td_name and party.
ScoreResp(t, overall, summary) ==
    [t |-> t, overall |-> overall, summary |-> summary, scores |-> "map", td |-> FALSE]

TdResp(scores, td) ==
    [t |-> "valid", overall |-> 40, summary |-> "text", scores |-> scores, td |-> td]

ScoresKinds == {"map", "map_td", "nomap"}

\* content[:max_content_chars] + "..." of score_article: the length of the
\* text in the prompt; the article's own content is left as it is
PromptContent(len) == IF len > MaxContentChars THEN MaxContentChars + 3 ELSE len

\* _parse_score_response: the data (TRUE), or None
parse_score_response(resp) == resp.t \in {"valid", "nonnumeric"}

\* f"{score_data['overall_score']:.1f}" of the log line raises on a non-number
FormatRaises(resp) == resp.t = "nonnumeric"

\* score_article returns the article (TRUE) or None (FALSE); the variant
\* returns the article whatever the response was
score_article_unchecked(resp) == resp.t # "raise"

score_article(resp) ==
    resp.t # "raise" /\ parse_score_response(resp) /\ ~FormatRaises(resp)

\* score_batch: the articles score_article returned, in order
score_batch(articles, resps) ==
    LET idx == SelectSeq([j \in 1..Len(articles) |-> j], LAMBDA j : score_article(resps[j]))
    IN  [j \in 1..Len(idx) |-> articles[idx[j]]]

\* article['ai_score'] = ... etc. of score_article, slot by slot; the
\* writes come before the log line, so they happen for every parsed response.
\* The variant also stores the truncated text as the article's content.
RECURSIVE ScoreWrites_truncating(_, _, _, _)
ScoreWrites_truncating(a, articles, resps, j) ==
    IF j = 0 THEN a
    ELSE LET id == articles[j]
             before == ScoreWrites_truncating(a, articles, resps, j - 1)
         IN  [before EXCEPT ![id].content = PromptContent(@)]

RECURSIVE ScoreWrites(_, _, _, _)
ScoreWrites(a, articles, resps, j) ==
    IF j = 0 THEN a
    ELSE LET id == articles[j]
             before == ScoreWrites(a, articles, resps, j - 1)
         IN  IF resps[j].t # "raise" /\ parse_score_response(resps[j])
             THEN [before EXCEPT ![id].keys = @ \cup {"ai_score", "ai_summary", "score_breakdown"}
                                                    \cup (IF resps[j].td
                                                          THEN {"mentions_td", "td_name", "party"}
                                                          ELSE {}),
                                 ![id].ai_score = resps[j].overall,
                                 ![id].ai_score_is_number = ~FormatRaises(resps[j]),
                                 ![id].ai_summary = resps[j].summary,
                                 ![id].score_breakdown = resps[j].scores]
             ELSE before

ScoreCallsOf(articles, resps) ==
    [j \in 1..Len(articles) |->
        [ article |-> articles[j], prompt |-> PromptContent(art[articles[j]].content),
          resp |-> resps[j].t, ok |-> score_article(resps[j]) ]]

ScoreChoices == {40, 72}

\* the politician's fields come at the top level of the response or inside
\* 'scores'
ScoreResponses ==
    { ScoreResp(t, 0, "") : t \in {"raise", "invalid", "missing"} }
    \cup { ScoreResp("valid", v, "text") : v \in ScoreChoices }
    \cup { ScoreResp("valid", 40, "null"), ScoreResp("nonnumeric", 0, "text") }
    \cup { TdResp("map", TRUE) } \cup { TdResp(k, FALSE) : k \in ScoresKinds }

NominalScore == ScoreResp("valid", 40, "text")

\* sorted(articles, key=ai_score, reverse=True): stable, equal keys keep input order
RECURSIVE InsertByScore_unstable(_, _, _)
InsertByScore_unstable(sorted, x, key) ==
    IF sorted = << >> THEN << x >>
    ELSE IF key[Head(sorted)] <= key[x] THEN << x >> \o sorted
    ELSE << Head(sorted) >> \o InsertByScore_unstable(Tail(sorted), x, key)

RECURSIVE InsertByScore(_, _, _)
InsertByScore(sorted, x, key) ==
    IF sorted = << >> THEN << x >>
    ELSE IF key[Head(sorted)] < key[x] THEN << x >> \o sorted
    ELSE << Head(sorted) >> \o InsertByScore(Tail(sorted), x, key)

RECURSIVE SortedByScore(_, _)
SortedByScore(articles, key) ==
    IF articles = << >> THEN << >>
    ELSE InsertByScore(SortedByScore(SubSeq(articles, 1, Len(articles) - 1), key),
                       articles[Len(articles)], key)

\* x.get('ai_score', 0)
ScoreKey(a) == [id \in DOMAIN a |-> IF "ai_score" \in a[id].keys THEN a[id].ai_score ELSE 0]

\* get_top_articles
get_top_articles(articles, count) == Prefix(SortedByScore(articles, ScoreKey(art)), count)

(* -------------------------- AIImageGenerator -------------------------- *)
\* The outside world's part in one generate_article_image call is [scene,
\* image]: `scene` is "ok" or "failed" (the completion call of
\* _get_visual_from_llm raised), `image` is "local" (generated and saved),
\* "remote" (generated, the download failed) or "failed" (images.generate
\* raised).
ImageOutcome(scene, image) == [scene |-> scene, image |-> image]

\* _get_visual_from_llm: the model's description, or the fixed one
get_visual_from_llm(o) == IF o.scene = "failed" THEN "generic" ELSE "described"

\* article.get('ai_summary', '')[:300] raises on a summary that is no string
SummaryRaises(a, id) == "ai_summary" \in a[id].keys /\ a[id].ai_summary = "null"

\* article.get('scraped_content', {}).get('top_image') of the handler
TopImageOf(a, id) ==
    IF "scraped_content" \in a[id].keys /\ a[id].top_image THEN "top_image" ELSE ""

\* generate_article_image: the path of the generated image, or on any
\* exception the scraped top image, if any ("" is None)
generate_article_image(a, id, o) ==
    IF ~SummaryRaises(a, id) /\ o.image # "failed" THEN o.image ELSE TopImageOf(a, id)

\* generate_batch writes ai_generated_image and imageUrl; it returns its argument
RECURSIVE ImageWrites(_, _, _, _)
ImageWrites(a, articles, outs, j) ==
    IF j = 0 THEN a
    ELSE LET id == articles[j]
             before == ImageWrites(a, articles, outs, j - 1)
             path == generate_article_image(before, id, outs[j])
         IN  IF path # ""
             THEN [before EXCEPT ![id].keys = @ \cup {"ai_generated_image", "imageUrl"},
                                 ![id].image = IF "imageUrl" \in before[id].keys
                                               THEN before[id].image ELSE path]
             ELSE before

generate_batch_dropping(a, articles, outs) ==
    SelectSeq(articles, LAMBDA id : \E j \in 1..Len(articles) :
                  articles[j] = id /\ generate_article_image(a, id, outs[j]) # "")

generate_batch(a, articles, outs) == articles

\* the generate_article_image calls of generate_batch
ImageCallsOf(a, articles, outs) ==
    [j \in 1..Len(articles) |->
        [ article |-> articles[j],
          scene |-> IF SummaryRaises(a, articles[j]) THEN "none" ELSE get_visual_from_llm(outs[j]),
          image |-> IF SummaryRaises(a, articles[j]) THEN "failed" ELSE outs[j].image,
          path |-> generate_article_image(a, articles[j], outs[j]) ]]

ImageOutcomes == { ImageOutcome(sc, im) : sc \in {"ok", "failed"}, im \in {"local", "remote", "failed"} }

NominalImage == ImageOutcome("ok", "local")

(* ------------------------- PersistenceGateway ------------------------- *)
\* the answer to one requests.post: it raises, or carries a status code
Answer(raises, status) == [raises |-> raises, status |-> status]

\* response.status_code == 201 or response.status_code == 200
IsSaved_only200(ans) == ~ans.raises /\ ans.status = 200

IsSaved(ans) == ~ans.raises /\ (ans.status = 201 \/ ans.status = 200)

\* article.get('score_breakdown', {})
BreakdownOf(a) == IF "score_breakdown" \in a.keys THEN a.score_breakdown ELSE "map"

\* building article_data raises when the breakdown has no .get
PayloadRaises(a) == BreakdownOf(a) = "nomap"

\* article_data: the fields of the payload the run's properties speak of;
\* `politician` says that it holds politician_name and party
article_data(a) ==
    [ url |-> a.link, title |-> a.title,
      impact_score |-> IF "ai_score" \in a.keys THEN a.ai_score ELSE 0,
      politician |-> BreakdownOf(a) = "map_td" ]

\* one article of the loop: was the request sent, and did it count
Posted(a, ans) == ~PayloadRaises(a)

SavedOne(a, ans) == Posted(a, ans) /\ IsSaved(ans)

\* the handler of line 234 catches whatever the try block of one article
\* raises, so the loop never ends early; the variant lets a raising
\* requests.post through
save_aborts_uncaught(answers) == \E j \in 1..Len(answers) : answers[j].raises

save_aborts(answers) == FALSE

\* one record per article of the loop, in order
PostsOf(articles, answers) ==
    [j \in 1..Len(articles) |->
        LET a == art[articles[j]]
        IN  [ article |-> articles[j],
              posted |-> Posted(a, answers[j]),
              payload |-> article_data(a),
              raises |-> ~Posted(a, answers[j]) \/ answers[j].raises,
              status |-> IF Posted(a, answers[j]) THEN answers[j].status ELSE 0,
              saved |-> SavedOne(a, answers[j]) ]]

\* _save_articles_to_database: the count it returns
save_articles_to_database(articles, answers) ==
    Cardinality({ j \in 1..Len(articles) : PostsOf(articles, answers)[j].saved })

StatusChoices == {200, 201, 204, 500}

PostAnswers == { Answer(FALSE, c) : c \in StatusChoices } \cup { Answer(TRUE, 0) }

NominalAnswer == Answer(FALSE, 201)

\* the endpoint behind /news-feed/save: it records the payload's url in
\* news_articles exactly when it answers with a success status
endpoint_stores(ans) == ~ans.raises /\ ans.status \in {200, 201}

StoredUrls(articles, answers) ==
    { art[articles[j]].link : j \in { i \in 1..Len(articles) :
          Posted(art[articles[i]], answers[i]) /\ endpoint_stores(answers[i]) } }

(* ----------------------- run_daily_aggregation ------------------------ *)
Returns == {"return_106", "return_118", "return_128", "return_190", "return_196"}

InitStats ==
    [ rss_articles_found |-> 0, new_articles |-> 0, skipped_existing |-> 0,
      filtered_articles |-> 0, scraped_articles |-> 0, scored_articles |-> 0,
      top_articles_count |-> 0, saved_to_database |-> 0, errors |-> 0 ]

NoSnapshot ==
    [written |-> FALSE, attempted |-> FALSE, top_articles |-> << >>, statistics |-> InitStats]

Configs == [image_generation_enabled : BOOLEAN, save_to_database : BOOLEAN]

ConfigDevs(c) ==
    (IF c.image_generation_enabled THEN 0 ELSE 1) + (IF c.save_to_database THEN 0 ELSE 1)

DbWorlds == { {} , 1..MaxSmall } \cup { {k} : k \in 1..MaxSmall }

\* the answers that may still differ from the nominal one; they all fall
\* into the first run, the later runs get nominal answers
Left == IF run = 1 THEN MaxDev - devs ELSE 0

RunStart ==
    /\ art = << >>
    /\ raw_articles = << >> /\ new_articles = << >> /\ filtered_articles = << >>
    /\ articles_to_scrape = << >> /\ scraped_articles = << >>
    /\ scored_articles = << >> /\ top_articles = << >>
    /\ stats = InitStats
    /\ db_queries = << >> /\ filter_calls = << >> /\ scrape_calls = << >>
    /\ score_calls = << >> /\ posts = << >>
    /\ snapshot = NoSnapshot
    /\ all_articles = << >> /\ image_calls = << >>

\* batch_size=50 of line 122 and the top_articles_count default of line 146
RunArgs == [batch_size |-> BatchSize, count |-> TopCount, answers |-> << >>]

\* nothing ran before the first run; db0 are the rows that were there
NoHist(rows) ==
    [ db0 |-> rows, feeds |-> << >>,
      processed |-> {}, scored |-> {}, saved |-> {}, failed |-> {} ]

Init ==
    /\ pc = "step1"
    /\ run = 1
    /\ args = RunArgs
    /\ config \in { c \in Configs : ConfigDevs(c) <= MaxDev }
    /\ devs = ConfigDevs(config)
    /\ db \in DbWorlds
    /\ hist = NoHist(db)
    /\ RunStart

\* what the sources list: anything in the first run, the same in a later run
FeedsNow == IF run = 1 THEN FeedWorlds ELSE { hist.feeds }

\* Step 1: fetch_all_feeds, and the return when nothing was found; an
\* exception of fetch_all_feeds is caught by the handler of line 192
Step1 ==
    /\ pc = "step1"
    /\ \E feeds \in FeedsNow :
        LET entries == fetch_all_feeds(feeds)
        IN  /\ run = 1 => FeedDevs(feeds) <= Left
            /\ devs' = devs + (IF run = 1 THEN FeedDevs(feeds) ELSE 0)
            /\ hist' = [hist EXCEPT !.feeds = feeds]
            /\ IF FetchRaises(feeds)
               THEN /\ all_articles' = AllArticles(BeforeBadSource(feeds))
                    /\ art' = art /\ raw_articles' = raw_articles
                    /\ stats' = [stats EXCEPT !.errors = @ + 1]
                    /\ pc' = "return_196"
               ELSE /\ all_articles' = AllArticles(feeds)
                    /\ art' = [i \in 1..Len(entries) |-> NewArticle(entries[i])]
                    /\ raw_articles' = [i \in 1..Len(entries) |-> i]
                    /\ stats' = [stats EXCEPT !.rss_articles_found = Len(entries)]
                    /\ pc' = IF Len(entries) = 0 THEN "return_106" ELSE "step1_5"
    /\ UNCHANGED << run, args, config, db, new_articles, filtered_articles, articles_to_scrape,
                    scraped_articles, scored_articles, top_articles,
                    db_queries, filter_calls, scrape_calls, score_calls, posts, snapshot,
                    image_calls >>

\* Step 1.5: filter_new_articles, and the return when nothing is new
Step1_5 ==
    /\ pc = "step1_5"
    /\ \E q \in [raises : BOOLEAN, urls : {db}] :
        LET new == filter_new_articles(raw_articles, q)
        IN  /\ q.raises => Left >= 1
            /\ devs' = devs + (IF q.raises THEN 1 ELSE 0)
            /\ new_articles' = new
            /\ db_queries' = IF raw_articles = << >> THEN db_queries ELSE Append(db_queries, q)
            /\ stats' = [stats EXCEPT !.new_articles = Len(new),
                                      !.skipped_existing = Len(raw_articles) - Len(new)]
            /\ pc' = IF Len(new) = 0 THEN "return_118" ELSE "step2"
    /\ UNCHANGED << run, hist, args, config, db, art, raw_articles, filtered_articles, articles_to_scrape,
                    scraped_articles, scored_articles, top_articles,
                    filter_calls, scrape_calls, score_calls, posts, snapshot,
                    all_articles, image_calls >>

\* Step 2: filter_articles(new_articles, batch_size=50), and the return when
\* nothing is relevant
Step2_continuing ==
    /\ pc = "step2"
    /\ \E resps \in FilterAnswers(new_articles, args.batch_size, Left) :
        LET filtered == filter_articles(new_articles, args.batch_size, resps)
        IN  /\ devs' = devs + FilterDevs(new_articles, args.batch_size, resps)
            /\ filtered_articles' = filtered
            /\ filter_calls' = FilterCallsOf(new_articles, args.batch_size, resps)
            /\ stats' = [stats EXCEPT !.filtered_articles = Len(filtered)]
            /\ pc' = "step3"
    /\ UNCHANGED << run, hist, args, config, db, art, raw_articles, new_articles, articles_to_scrape,
                    scraped_articles, scored_articles, top_articles,
                    db_queries, scrape_calls, score_calls, posts, snapshot,
                    all_articles, image_calls >>

Step2 ==
    /\ pc = "step2"
    /\ \E resps \in FilterAnswers(new_articles, args.batch_size, Left) :
        LET filtered == filter_articles(new_articles, args.batch_size, resps)
        IN  /\ devs' = devs + FilterDevs(new_articles, args.batch_size, resps)
            /\ filtered_articles' = filtered
            /\ filter_calls' = FilterCallsOf(new_articles, args.batch_size, resps)
            /\ stats' = [stats EXCEPT !.filtered_articles = Len(filtered)]
            /\ pc' = IF Len(filtered) = 0 THEN "return_128" ELSE "step3"
    /\ UNCHANGED << run, hist, args, config, db, art, raw_articles, new_articles, articles_to_scrape,
                    scraped_articles, scored_articles, top_articles,
                    db_queries, scrape_calls, score_calls, posts, snapshot,
                    all_articles, image_calls >>

\* filtered_articles[:30]
ToScrape_short(filtered) == Prefix(filtered, ScrapeLimit - 1)

ToScrape(filtered) == Prefix(filtered, ScrapeLimit)

\* Step 3: scrape_batch(filtered_articles[:30])
Step3 ==
    /\ pc = "step3"
    /\ LET to_scrape == ToScrape(filtered_articles)
       IN  \E outs \in SlotInputs(Len(to_scrape), ScrapeOutcomes, NominalScrape, Left) :
            /\ devs' = devs + DevCount(outs, NominalScrape)
            /\ articles_to_scrape' = to_scrape
            /\ scraped_articles' = scrape_batch(to_scrape, outs)
            /\ scrape_calls' = ScrapeCallsOf(to_scrape, outs)
            /\ art' = ScrapeWrites(art, to_scrape, outs, Len(to_scrape))
            /\ stats' = [stats EXCEPT !.scraped_articles = Len(scrape_batch(to_scrape, outs))]
            /\ pc' = "step4"
    /\ UNCHANGED << run, hist, args, config, db, raw_articles, new_articles, filtered_articles,
                    scored_articles, top_articles, db_queries,
                    filter_calls, score_calls, posts, snapshot,
                    all_articles, image_calls >>

\* Step 4: score_batch(scraped_articles)
Step4 ==
    /\ pc = "step4"
    /\ \E resps \in SlotInputs(Len(scraped_articles), ScoreResponses, NominalScore, Left) :
        /\ devs' = devs + DevCount(resps, NominalScore)
        /\ scored_articles' = score_batch(scraped_articles, resps)
        /\ score_calls' = ScoreCallsOf(scraped_articles, resps)
        /\ art' = ScoreWrites(art, scraped_articles, resps, Len(scraped_articles))
        /\ stats' = [stats EXCEPT !.scored_articles = Len(score_batch(scraped_articles, resps))]
        /\ pc' = "step5"
    /\ UNCHANGED << run, hist, args, config, db, raw_articles, new_articles, filtered_articles,
                    articles_to_scrape, scraped_articles, top_articles,
                    db_queries, filter_calls, scrape_calls, posts, snapshot,
                    all_articles, image_calls >>

\* sorted() compares a null score with another score, and the log line of
\* get_top_articles formats it: both raise
RankRaises(a, articles) == \E j \in 1..Len(articles) : ~a[articles[j]].ai_score_is_number

\* Step 5: get_top_articles(scored_articles, count=top_count); an exception
\* is caught by the handler of line 192
Step5 ==
    /\ pc = "step5"
    /\ IF RankRaises(art, scored_articles)
       THEN /\ top_articles' = top_articles
            /\ stats' = [stats EXCEPT !.errors = @ + 1]
            /\ pc' = "return_196"
       ELSE /\ top_articles' = get_top_articles(scored_articles, args.count)
            /\ stats' = [stats EXCEPT !.top_articles_count =
                                         Len(get_top_articles(scored_articles, args.count))]
            /\ pc' = "step5_5"
    /\ UNCHANGED << run, hist, args, config, db, art, raw_articles, new_articles, filtered_articles,
                    articles_to_scrape, scraped_articles, scored_articles, devs,
                    db_queries, filter_calls, scrape_calls, score_calls, posts, snapshot,
                    all_articles, image_calls >>

\* article.get('ai_summary', 'No summary')[:100] of the log loop raises on a
\* summary that is no string
LogRaises(a, articles) == \E j \in 1..Len(articles) : a[articles[j]].ai_summary = "null"

\* Step 5.5 and the log of the top articles: generate_batch when enabled;
\* an exception of the log loop is caught by the handler of line 192
Step5_5 ==
    /\ pc = "step5_5"
    /\ \E outs \in SlotInputs(Len(top_articles), ImageOutcomes, NominalImage,
                               IF config.image_generation_enabled THEN Left ELSE 0) :
        LET a2 == IF config.image_generation_enabled
                  THEN ImageWrites(art, top_articles, outs, Len(top_articles))
                  ELSE art
        IN  /\ devs' = devs + DevCount(outs, NominalImage)
            /\ art' = a2
            /\ top_articles' = IF config.image_generation_enabled
                               THEN generate_batch(art, top_articles, outs) ELSE top_articles
            /\ image_calls' = IF config.image_generation_enabled
                              THEN ImageCallsOf(art, top_articles, outs) ELSE image_calls
            /\ IF LogRaises(a2, top_articles)
               THEN /\ stats' = [stats EXCEPT !.errors = @ + 1]
                    /\ pc' = "return_196"
               ELSE /\ stats' = stats
                    /\ pc' = "step6"
    /\ UNCHANGED << run, hist, args, config, db, raw_articles, new_articles, filtered_articles,
                    articles_to_scrape, scraped_articles, scored_articles,
                    db_queries, filter_calls, scrape_calls, score_calls, posts, snapshot,
                    all_articles >>

\* Step 6: _save_articles_to_database when the configuration asks for it
Step6 ==
    /\ pc = "step6"
    /\ \E answers \in SlotInputs(Len(top_articles), PostAnswers, NominalAnswer,
                                  IF config.save_to_database THEN Left ELSE 0) :
        /\ devs' = devs + DevCount(answers, NominalAnswer)
        /\ IF config.save_to_database
           THEN /\ posts' = PostsOf(top_articles, answers)
                /\ db' = db \cup StoredUrls(top_articles, answers)
                /\ IF save_aborts(answers)
                   THEN /\ stats' = [stats EXCEPT !.errors = @ + 1]
                        /\ pc' = "return_196"
                   ELSE /\ stats' = [stats EXCEPT !.saved_to_database =
                                                     save_articles_to_database(top_articles, answers)]
                        /\ pc' = "step7"
           ELSE /\ posts' = posts
                /\ db' = db
                /\ stats' = stats
                /\ pc' = "step7"
    /\ UNCHANGED << run, hist, args, config, art, raw_articles, new_articles, filtered_articles,
                    articles_to_scrape, scraped_articles, scored_articles, top_articles,
                    db_queries, filter_calls, scrape_calls, score_calls, snapshot,
                    all_articles, image_calls >>

\* _save_to_json: both files written, or an exception that is only logged
save_to_json_skipped(articles, st, ok) == NoSnapshot

save_to_json(articles, st, ok) ==
    [ written |-> ok, attempted |-> TRUE,
      top_articles |-> IF ok THEN articles ELSE << >>,
      statistics |-> IF ok THEN st ELSE InitStats ]

\* Step 7: _save_to_json, then the return of line 190
Step7 ==
    /\ pc = "step7"
    /\ \E ok \in BOOLEAN :
        /\ ~ok => Left >= 1
        /\ devs' = devs + (IF ok THEN 0 ELSE 1)
        /\ snapshot' = save_to_json(top_articles, stats, ok)
    /\ pc' = "return_190"
    /\ UNCHANGED << run, hist, args, config, db, art, raw_articles, new_articles, filtered_articles,
                    articles_to_scrape, scraped_articles, scored_articles, top_articles,
                    stats, db_queries, filter_calls, scrape_calls, score_calls, posts,
                    all_articles, image_calls >>

\* main: the exit status of the process, from the statistics the run returned
main_exit_zero(st) == 0

main(st) == IF st.errors > 0 THEN 1 ELSE 0

\* the links of the articles of a list
LinksOf(articles) == { art[articles[j]].link : j \in 1..Len(articles) }

\* what the run that has returned adds to the history
HistAfter ==
    [ db0 |-> hist.db0, feeds |-> hist.feeds,
      processed |-> hist.processed \cup
                    UNION { LinksOf(filter_calls[k].batch) : k \in 1..Len(filter_calls) },
      scored |-> hist.scored \cup
                 { art[score_calls[j].article].link : j \in 1..Len(score_calls) },
      saved |-> hist.saved \cup
                { posts[j].payload.url : j \in { i \in 1..Len(posts) : posts[i].saved } },
      failed |-> hist.failed \cup
                 { posts[j].payload.url : j \in { i \in 1..Len(posts) : ~posts[i].saved } } ]

\* run_aggregator.py started again by cron or by hand: a new process, a new
\* aggregator, a new run against the same datastore
NextRun ==
    /\ pc \in Returns
    /\ run < MaxRuns
    /\ run' = run + 1
    /\ hist' = HistAfter
    /\ pc' = "step1"
    /\ art' = << >>
    /\ raw_articles' = << >> /\ new_articles' = << >> /\ filtered_articles' = << >>
    /\ articles_to_scrape' = << >> /\ scraped_articles' = << >>
    /\ scored_articles' = << >> /\ top_articles' = << >>
    /\ stats' = InitStats
    /\ db_queries' = << >> /\ filter_calls' = << >> /\ scrape_calls' = << >>
    /\ score_calls' = << >> /\ posts' = << >>
    /\ snapshot' = NoSnapshot
    /\ all_articles' = << >> /\ image_calls' = << >>
    /\ UNCHANGED << args, config, db, devs >>

Next == Step1 \/ Step1_5 \/ Step2 \/ Step3 \/ Step4 \/ Step5 \/ Step5_5 \/ Step6 \/ Step7

Spec == Init /\ [][Next]_vars

\* run after run, as cron starts them
RunsNext == Next \/ NextRun

RunsSpec == Init /\ [][RunsNext]_vars

(* ------------------------------ scheduler ----------------------------- *)
\* what the call run_aggregator() of job raises: main ends in sys.exit on
\* every path, and sys.exit raises SystemExit
MainRaises == "SystemExit"

\* `except Exception`: SystemExit, KeyboardInterrupt and GeneratorExit derive
\* from BaseException only
CaughtAsException(exc) == exc \notin {"SystemExit", "KeyboardInterrupt", "GeneratorExit"}

\* job, once run_aggregator() has ended, and what follows it in
\* start_hourly_scheduler / start_daily_scheduler: an exception the handler
\* of job catches is logged, and the loop starts job again when it is
\* due; any other leaves job, the loop and the handlers of __main__, and
\* the process ends with the status main gave to sys.exit
job ==
    /\ pc \in Returns
    /\ IF CaughtAsException(MainRaises)
       THEN NextRun
       ELSE /\ pc' = IF main(stats) = 0 THEN "exit_0" ELSE "exit_1"
            /\ UNCHANGED << run, hist, args, config, db, art, raw_articles, new_articles,
                            filtered_articles, articles_to_scrape, scraped_articles,
                            scored_articles, top_articles, stats, devs, db_queries,
                            filter_calls, scrape_calls, score_calls, posts, snapshot,
                            all_articles, image_calls >>

SchedulerNext == Next \/ job

SchedulerSpec == Init /\ [][SchedulerNext]_vars

(* --------------------- the components on their own -------------------- *)
\* fetch_all_feeds, filter_articles and get_top_articles take any list and
\* any batch_size or count; here each is called once on a short list.
CallLens == 0..MaxCallLen
CallBatchSizes == 1..MaxCallBatch
CallCounts == 0..(MaxCallLen + 1)

\* n articles as fetch_feed builds them
FreshArticles(n) == [i \in 1..n |-> NewArticle(fetch_feed(FeedOf(n)[1], 1)[i])]

\* n scored articles; score 0 stands for an article without 'ai_score'
ScoredArticles(n) ==
    { [i \in 1..n |-> [FreshArticles(n)[i] EXCEPT
                          !.keys = IF sc[i] = 0 THEN {} ELSE {"ai_score"},
                          !.ai_score = sc[i]]] :
        sc \in [1..n -> {0} \cup ScoreChoices] }

\* answers to one batch: all indices, none, a raising call, unparseable text
CallResponses(n) ==
    { NominalResp(n), Resp("list", << >>), Resp("raise", << >>), Resp("invalid", << >>) }

RECURSIVE CallAnswers(_, _, _)
CallAnswers(articles, b, k) ==
    IF k = 0 THEN { << >> }
    ELSE { Append(r, x) : r \in CallAnswers(articles, b, k - 1),
                          x \in CallResponses(Len(BatchOf(articles, b, k))) }

\* one batch answered with any list of items, the others with all indices
IndexAnswers(articles, b, K) ==
    UNION { { [k \in 1..K |-> IF k = d THEN x ELSE NominalResp(Len(BatchOf(articles, b, k)))] :
                x \in { Resp("list", it) :
                          it \in SeqUpTo(ItemChoices(Len(BatchOf(articles, b, d))), MaxRespLen) } } :
            d \in 1..K }

\* the titles two sources may list: one story written in every form, and
\* another story
CallTitles == { [base |-> 1, form |-> f] : f \in TitleForms } \cup { [base |-> 2, form |-> "plain"] }

\* two sources listing n entries between them, each fetched or failing
CallFeeds(n) ==
    { << [url |-> TRUE, raises |-> r[1], entries |-> SubSeq(e, 1, c)],
         [url |-> TRUE, raises |-> r[2], entries |-> SubSeq(e, c + 1, n)] >> :
        e \in { [i \in 1..n |-> [title |-> t[i], link |-> i]] : t \in [1..n -> CallTitles] },
        c \in 0..n, r \in [1..2 -> BOOLEAN] }

\* a ranked article before the image stage: scraped with or without a top
\* image, scored, its summary a text or no string; and the outside world's
\* part in its generate_article_image call
ImageCases ==
    [img : BOOLEAN, summary : {"text"}, o : ImageOutcomes]
    \cup [img : BOOLEAN, summary : {"null"}, o : {NominalImage}]

RankedArticle(a, c) ==
    [a EXCEPT !.keys = {"scraped_content", "content", "ai_score", "ai_summary", "score_breakdown"},
              !.content = MinContentLength, !.top_image = c.img,
              !.ai_score = 40, !.ai_summary = c.summary]

CallInit ==
    /\ run = 1
    /\ config = [image_generation_enabled |-> TRUE, save_to_database |-> TRUE]
    /\ db = {} /\ devs = 0
    /\ raw_articles = << >> /\ filtered_articles = << >>
    /\ articles_to_scrape = << >> /\ scraped_articles = << >>
    /\ stats = InitStats
    /\ db_queries = << >> /\ filter_calls = << >> /\ scrape_calls = << >>
    /\ score_calls = << >> /\ posts = << >> /\ snapshot = NoSnapshot
    /\ all_articles = << >> /\ image_calls = << >>
    /\ \E n \in CallLens :
        \/ /\ pc = "call_fetch_all_feeds"
           /\ n < MaxCallLen
           /\ \E feeds \in CallFeeds(n) : hist = [NoHist({}) EXCEPT !.feeds = feeds]
           /\ art = << >>
           /\ new_articles = << >> /\ scored_articles = << >> /\ top_articles = << >>
           /\ args = RunArgs
        \/ /\ pc = "call_filter_articles"
           /\ hist = NoHist({})
           /\ art = FreshArticles(n)
           /\ new_articles = [i \in 1..n |-> i]
           /\ scored_articles = << >> /\ top_articles = << >>
           /\ \E b \in CallBatchSizes :
                \E resps \in CallAnswers(new_articles, b, NumBatches(n, b))
                             \cup IndexAnswers(new_articles, b, NumBatches(n, b)) :
                    args = [batch_size |-> b, count |-> TopCount, answers |-> resps]
        \/ /\ pc = "call_get_top_articles"
           /\ hist = NoHist({})
           /\ art \in ScoredArticles(n)
           /\ scored_articles = [i \in 1..n |-> i]
           /\ new_articles = << >> /\ top_articles = << >>
           /\ args \in [batch_size : {BatchSize}, count : CallCounts, answers : {<< >>}]
        \/ /\ pc = "call_generate_batch"
           /\ n < MaxCallLen
           /\ hist = NoHist({})
           /\ \E cs \in [1..n -> ImageCases] :
                /\ art = [i \in 1..n |-> RankedArticle(FreshArticles(n)[i], cs[i])]
                /\ args = [batch_size |-> BatchSize, count |-> TopCount,
                           answers |-> [i \in 1..n |-> cs[i].o]]
           /\ top_articles = [i \in 1..n |-> i]
           /\ new_articles = << >> /\ scored_articles = << >>

\* fetch_all_feeds(feed_urls)
CallFetchAllFeeds ==
    /\ pc = "call_fetch_all_feeds"
    /\ LET entries == fetch_all_feeds(hist.feeds)
       IN  /\ all_articles' = AllArticles(hist.feeds)
           /\ art' = [i \in 1..Len(entries) |-> NewArticle(entries[i])]
           /\ raw_articles' = [i \in 1..Len(entries) |-> i]
    /\ pc' = "called_fetch_all_feeds"
    /\ UNCHANGED << run, hist, args, config, db, new_articles, filtered_articles,
                    articles_to_scrape, scraped_articles, scored_articles, top_articles,
                    stats, devs, db_queries, filter_calls, scrape_calls, score_calls,
                    posts, snapshot, image_calls >>

\* filter_articles(new_articles, batch_size)
CallFilterArticles ==
    /\ pc = "call_filter_articles"
    /\ filtered_articles' = filter_articles(new_articles, args.batch_size, args.answers)
    /\ filter_calls' = FilterCallsOf(new_articles, args.batch_size, args.answers)
    /\ pc' = "called_filter_articles"
    /\ UNCHANGED << run, hist, args, config, db, art, raw_articles, new_articles, articles_to_scrape,
                    scraped_articles, scored_articles, top_articles, stats, devs,
                    db_queries, scrape_calls, score_calls, posts, snapshot,
                    all_articles, image_calls >>

\* get_top_articles(scored_articles, count)
CallGetTopArticles ==
    /\ pc = "call_get_top_articles"
    /\ top_articles' = get_top_articles(scored_articles, args.count)
    /\ pc' = "called_get_top_articles"
    /\ UNCHANGED << run, hist, args, config, db, art, raw_articles, new_articles, filtered_articles,
                    articles_to_scrape, scraped_articles, scored_articles, stats, devs,
                    db_queries, filter_calls, scrape_calls, score_calls, posts, snapshot,
                    all_articles, image_calls >>

\* generate_batch(top_articles)
CallGenerateBatch ==
    /\ pc = "call_generate_batch"
    /\ art' = ImageWrites(art, top_articles, args.answers, Len(top_articles))
    /\ top_articles' = generate_batch(art, top_articles, args.answers)
    /\ image_calls' = ImageCallsOf(art, top_articles, args.answers)
    /\ pc' = "called_generate_batch"
    /\ UNCHANGED << run, hist, args, config, db, raw_articles, new_articles, filtered_articles,
                    articles_to_scrape, scraped_articles, scored_articles, stats, devs,
                    db_queries, filter_calls, scrape_calls, score_calls, posts, snapshot,
                    all_articles >>

CallNext == CallFetchAllFeeds \/ CallFilterArticles \/ CallGetTopArticles \/ CallGenerateBatch

CallSpec == CallInit /\ [][CallNext]_vars

(* ============================== claims ================================ *)
\* positions of the run at which the named step has been executed
Returned == pc \in Returns
After1_5 == pc \notin {"step1", "step1_5", "return_106"}
After2 == After1_5 /\ pc \notin {"step2", "return_118"}
After3 == After2 /\ pc \notin {"step3", "return_128"}
After4 == After3 /\ pc # "step4"

UnparseableKinds == {"invalid", "nonobject", "scalar"}

\* C1: a batch whose model response cannot be parsed into an index list
\* (invalid JSON, a non-object, a 'relevant' that is no list) is output whole.
C1_UnparseablePassesThrough ==
    \A k \in 1..Len(filter_calls) :
        filter_calls[k].resp \in UnparseableKinds
            => filter_calls[k].out = filter_calls[k].batch

\* C2: a batch whose model call raises is output unchanged (same articles,
\* same order), every batch of the candidate list is still processed, and
\* the filter's result is the batches' outputs in batch order.
C2_CallFailurePassesThrough ==
    After2 =>
        /\ \A k \in 1..Len(filter_calls) :
              filter_calls[k].resp = "raise" => filter_calls[k].out = filter_calls[k].batch
        /\ (\E k \in 1..Len(filter_calls) : filter_calls[k].resp = "raise")
              => /\ Len(filter_calls) = NumBatches(Len(new_articles), BatchSize)
                 /\ Flatten([k \in 1..Len(filter_calls) |-> filter_calls[k].batch]) = new_articles
                 /\ filtered_articles = Flatten([k \in 1..Len(filter_calls) |-> filter_calls[k].out])

\* C2 witness: the call of the first of two batches raised, the second batch
\* was processed, and all the articles of the first are in the result
C2_Witness ==
    /\ After2
    /\ Len(filter_calls) = 2
    /\ filter_calls[1].resp = "raise"
    /\ Len(filter_calls[1].batch) = BatchSize
    /\ filter_calls[2].resp = "list"
    /\ Len(filtered_articles) = Len(new_articles)

FailedScoreSlots == { j \in 1..Len(score_calls) : score_calls[j].resp \in {"raise", "invalid", "missing"} }

\* a response with the three keys whose overall_score is no number is
\* dropped as well
DroppedScoreSlots == FailedScoreSlots \cup { j \in 1..Len(score_calls) : score_calls[j].resp = "nonnumeric" }

\* C3: a scoring call that raises, or whose response does not parse or lacks
\* a required key, removes exactly its slot from score_batch's output: the
\* output is the input without the dropped slots (the others are scored), the
\* count drops by one per such call, and an article none of whose calls
\* parsed carries no score.
C3_ScorerFailsClosed ==
    After4 =>
        LET dropped == DroppedScoreSlots
            failed == FailedScoreSlots
            kept == SelectSeq([j \in 1..Len(scraped_articles) |-> j],
                              LAMBDA j : j \notin dropped)
        IN  /\ Len(score_calls) = Len(scraped_articles)
            /\ Len(scored_articles) = Len(scraped_articles) - Cardinality(dropped)
            /\ scored_articles = [i \in 1..Len(kept) |-> scraped_articles[kept[i]]]
            /\ \A j \in failed :
                  (\A i \in 1..Len(score_calls) :
                        score_calls[i].article = score_calls[j].article => i \in failed)
                     => "ai_score" \notin art[score_calls[j].article].keys

\* C3 witness: the first of two articles failed to score and the second is the output
C3_Witness ==
    /\ After4
    /\ Len(scraped_articles) = 2
    /\ DroppedScoreSlots = {1} /\ FailedScoreSlots = {1}
    /\ scored_articles = << scraped_articles[2] >>

QueryOk == Len(db_queries) = 1 /\ ~db_queries[1].raises
QueryFailed == Len(db_queries) = 1 /\ db_queries[1].raises

\* C4: when the datastore query succeeds with existing-set E, the gate's
\* output is the input without the articles whose link is in E, in input order.
C4_DedupExact ==
    (After1_5 /\ QueryOk) =>
        LET E == db_queries[1].urls
            kept == Range(new_articles)
        IN  /\ IsSubsequence(new_articles, raw_articles)
            /\ \A j \in 1..Len(raw_articles) :
                  (art[raw_articles[j]].link \in E) <=> (raw_articles[j] \notin kept)
            /\ stats.skipped_existing =
                  Cardinality({ j \in 1..Len(raw_articles) : art[raw_articles[j]].link \in E })

\* C4 witness: of two articles the first is in the datastore and the second is kept
C4_Witness ==
    /\ After1_5 /\ QueryOk
    /\ Len(raw_articles) = 2
    /\ art[raw_articles[1]].link \in db_queries[1].urls
    /\ new_articles = << raw_articles[2] >>

\* C5: when the datastore query fails the gate excludes nothing (its output
\* is its input) and the run goes on to the relevance filter.
C5_DedupFailsOpen ==
    QueryFailed =>
        /\ new_articles = raw_articles
        /\ stats.skipped_existing = 0
        /\ pc \notin {"step1", "step1_5", "return_106", "return_118"}

\* C5 witness: the query failed while the datastore held the link of every
\* ingested article, and the run went on to the filter
C5_Witness ==
    /\ QueryFailed
    /\ Len(raw_articles) = MaxSmall
    /\ \A j \in 1..Len(raw_articles) : art[raw_articles[j]].link \in db_queries[1].urls
    /\ pc = "step2"

\* C6 as stated: extraction is attempted for every article the relevance
\* filter output.
C6_EverySurvivorScraped ==
    After3 =>
        /\ Len(scrape_calls) = Len(filtered_articles)
        /\ \A j \in 1..Len(scrape_calls) : scrape_calls[j].article = filtered_articles[j]

\* C6 amended: extraction is attempted for exactly the first
\* min(30, survivors) articles the relevance filter output, in order (a page
\* is fetched for each that has an http link); the survivors after the 30th
\* are left out.
C6_FirstThirtyScraped ==
    After3 =>
        /\ Len(scrape_calls) = Min(Len(filtered_articles), ScrapeLimit)
        /\ \A j \in 1..Len(scrape_calls) :
              /\ scrape_calls[j].article = filtered_articles[j]
              /\ IsHttpUrl(scrape_calls[j].url) => scrape_calls[j].tried # {}

\* C6 witness: more than 30 survivors, 30 extraction attempts
C6_Witness ==
    /\ After3
    /\ Len(filtered_articles) > ScrapeLimit
    /\ Len(scrape_calls) = ScrapeLimit

\* C7: the working set never grows from one stage to the next.
C7_NeverGrows ==
    /\ Len(new_articles) <= Len(raw_articles)
    /\ Len(filtered_articles) <= Len(new_articles)
    /\ Len(scraped_articles) <= Len(filtered_articles)
    /\ Len(scored_articles) <= Len(scraped_articles)
    /\ Len(top_articles) <= Len(scored_articles)
    /\ stats.top_articles_count <= stats.scored_articles
    /\ stats.scored_articles <= stats.scraped_articles
    /\ stats.scraped_articles <= stats.filtered_articles
    /\ stats.filtered_articles <= stats.new_articles
    /\ stats.new_articles <= stats.rss_articles_found

\* C8: before the Ranker every stage's output is a subsequence of its input
\* (relative order kept, nothing twice, nothing dropped comes back).
C8_StagesGiveSubsequences ==
    /\ IsSubsequence(new_articles, raw_articles)
    /\ IsSubsequence(filtered_articles, new_articles)
    /\ IsSubsequence(scraped_articles, filtered_articles)
    /\ IsSubsequence(scored_articles, scraped_articles)

SavedCount == Cardinality({ j \in 1..Len(posts) : posts[j].saved })

\* C9 as stated: a write counts as saved exactly when the endpoint answered
\* with a status in 200..299.
C9_Any2xxCounts ==
    /\ \A j \in 1..Len(posts) :
          posts[j].saved <=> (~posts[j].raises /\ posts[j].status >= 200 /\ posts[j].status <= 299)
    /\ stats.saved_to_database = SavedCount

\* C9 amended: a write counts as saved exactly when the endpoint answered
\* with status 200 or 201; any other answer, 2xx or not, is not counted.
C9_Only200And201Count ==
    /\ \A j \in 1..Len(posts) :
          posts[j].saved <=> (~posts[j].raises /\ posts[j].status \in {200, 201})
    /\ stats.saved_to_database = SavedCount
    /\ (pc \in {"step7", "return_190"} /\ config.save_to_database)
          => Len(posts) = Len(top_articles)

\* C9 witness: one write answered 204 and was not counted, another answered
\* 201 and was
C9_Witness ==
    /\ \E j \in 1..Len(posts) : posts[j].status = 204 /\ ~posts[j].saved
    /\ \E j \in 1..Len(posts) : posts[j].status = 201 /\ posts[j].saved
    /\ stats.saved_to_database = Len(posts) - 1

\* C10 as stated: every run that ends without a fatal abort has attempted
\* the local snapshot, also when no article was new or none was relevant.
C10_SnapshotUnlessFatal ==
    pc \in {"return_118", "return_128", "return_190"} => snapshot.attempted

\* C10 amended: the local snapshot is attempted in exactly the runs that
\* reach Step 7, those in which the relevance filter left an article and no
\* fatal error occurred; a run that returns early (no feed article, no new
\* article, no relevant article) or aborts leaves no snapshot.
C10_SnapshotIffStep7 ==
    /\ snapshot.attempted <=> pc = "return_190"
    /\ snapshot.written => snapshot.attempted /\ snapshot.top_articles = top_articles
    /\ pc = "return_190" => Len(filtered_articles) > 0 /\ stats.errors = 0
    /\ pc \in {"return_106", "return_118", "return_128", "return_196"} => snapshot = NoSnapshot

\* C10 witness: a finished run whose snapshot holds no article, every
\* survivor of the filter having been dropped at extraction
C10_Witness ==
    /\ pc = "return_190"
    /\ snapshot.written
    /\ Len(filtered_articles) > 0
    /\ top_articles = << >>

\* C11: a run that has come to the persistence stage goes on to the local
\* snapshot whatever the remote writes answered (success, a non-success
\* status, an exception) and also when remote saving is off: after the writes
\* the run is at Step 7 or has returned through it, never aborted, and once
\* returned it has attempted the snapshot, which, when written, holds the
\* statistics and the whole top list.
C11_SnapshotWhateverTheWrites ==
    /\ Len(posts) > 0 => pc \in {"step7", "return_190"}
    /\ pc = "step7" => (config.save_to_database => Len(posts) = Len(top_articles))
    /\ pc = "return_190" =>
          /\ snapshot.attempted
          /\ config.save_to_database => Len(posts) = Len(top_articles)
          /\ ~config.save_to_database => posts = << >>
          /\ snapshot.written =>
                /\ snapshot.top_articles = top_articles
                /\ snapshot.statistics = stats
                /\ snapshot.statistics.saved_to_database = SavedCount

\* C11 witness: every remote write raised and the snapshot was written with
\* the whole top list
C11_Witness ==
    /\ pc = "return_190"
    /\ Len(posts) >= 1
    /\ \A j \in 1..Len(posts) : posts[j].posted /\ posts[j].raises
    /\ snapshot.written
    /\ snapshot.top_articles = top_articles
    /\ stats.saved_to_database = 0

\* C12: every article of the top list gets exactly one write, whatever the
\* writes before it answered, and saved_to_database is the number of writes
\* that succeeded.
C12_OneWritePerTopArticle ==
    (pc \in {"step7", "return_190"} /\ config.save_to_database) =>
        /\ Len(posts) = Len(top_articles)
        /\ \A j \in 1..Len(posts) : posts[j].article = top_articles[j] /\ posts[j].posted
        /\ stats.saved_to_database = SavedCount

\* C13: when the scoring response of an article carried the politician flag
\* (the article holds mentions_td, td_name and party), the payload sent for it
\* holds the politician's name and the party.
C13_PayloadCarriesPolitician ==
    \A j \in 1..Len(posts) :
        (posts[j].posted /\ "mentions_td" \in art[posts[j].article].keys)
            => posts[j].payload.politician

\* C14: filter_articles called on N > 0 articles with batch size B makes
\* exactly ceil(N/B) model requests, the batches are consecutive slices of the
\* input (full ones, then what is left) so that every article is in exactly
\* one batch; on N = 0 it makes no request.
C14_BatchSizing ==
    pc = "called_filter_articles" =>
        LET N == Len(new_articles)
            B == args.batch_size
            K == Len(filter_calls)
        IN  /\ K * B >= N /\ (K = 0 \/ (K - 1) * B < N)
            /\ N = 0 => K = 0 /\ filtered_articles = << >>
            /\ \A k \in 1..K :
                  /\ Len(filter_calls[k].batch) = IF k < K THEN B ELSE N - (K - 1) * B
                  /\ \A i \in 1..Len(filter_calls[k].batch) :
                        filter_calls[k].batch[i] = new_articles[(k - 1) * B + i]
            /\ \A a \in Range(new_articles) :
                  Cardinality({ << k, i >> \in (1..K) \X (1..B) :
                                  i <= Len(filter_calls[k].batch) /\ filter_calls[k].batch[i] = a }) = 1

\* C14 witness: four articles in batches of three: two requests, the second
\* for the one article left
C14_Witness ==
    /\ pc = "called_filter_articles"
    /\ Len(new_articles) = 4 /\ args.batch_size = 3
    /\ Len(filter_calls) = 2
    /\ filter_calls[2].batch = << new_articles[4] >>

\* C15: for an article with a valid URL, strategy 2 runs exactly when
\* strategy 1 gave nothing or less than the threshold; the article is dropped
\* exactly when both did; a text of exactly the threshold length is accepted
\* from either strategy.
C15_ExtractionGate ==
    After3 =>
        /\ \A j \in 1..Len(scrape_calls) :
              LET c == scrape_calls[j]
              IN  IsHttpUrl(c.url) =>
                    /\ 1 \in c.tried
                    /\ (2 \in c.tried) <=> (c.s1 < MinContentLength)
                    /\ (~c.ok) <=> (c.s1 < MinContentLength /\ c.s2 < MinContentLength)
                    /\ c.s1 = MinContentLength => c.ok
                    /\ (2 \in c.tried /\ c.s2 = MinContentLength) => c.ok
        /\ LET kept == SelectSeq([j \in 1..Len(scrape_calls) |-> j],
                                 LAMBDA j : scrape_calls[j].ok)
           IN  scraped_articles = [i \in 1..Len(kept) |-> scrape_calls[kept[i]].article]

\* C15 witness: strategy 1 one character short, strategy 2 exactly at the
\* threshold, the article kept
C15_Witness ==
    /\ After3
    /\ \E j \in 1..Len(scrape_calls) :
          /\ scrape_calls[j].s1 = MinContentLength - 1
          /\ scrape_calls[j].s2 = MinContentLength
          /\ scrape_calls[j].tried = {1, 2}
          /\ scrape_calls[j].article \in Range(scraped_articles)

\* the list get_top_articles was called on holds articles 1..n in this order,
\* so an article's number is its place in the input
Before(key, x, y) == key[x] > key[y] \/ (key[x] = key[y] /\ x < y)

\* C16: get_top_articles returns the first min(count, n) articles of the
\* input ordered by score, highest first, articles of equal score in input
\* order; the input list is as it was; an empty input gives an empty output.
C16_RankerStableTopN ==
    pc = "called_get_top_articles" =>
        LET n == Len(scored_articles)
            key == ScoreKey(art)
        IN  /\ scored_articles = [i \in 1..n |-> i]
            /\ Len(top_articles) = Min(args.count, n)
            /\ Range(top_articles) \subseteq 1..n
            /\ \A i, j \in 1..Len(top_articles) :
                  i < j => Before(key, top_articles[i], top_articles[j])
            /\ \A x \in (1..n) \ Range(top_articles) :
                  \A i \in 1..Len(top_articles) : Before(key, top_articles[i], x)
            /\ n = 0 => top_articles = << >>

\* C16 witness: two articles of equal score ahead of a higher one in the
\* input; the top two are the higher one and the first of the equal ones
C16_Witness ==
    /\ pc = "called_get_top_articles"
    /\ Len(scored_articles) = 3 /\ args.count = 2
    /\ ScoreKey(art)[1] = ScoreKey(art)[2] /\ ScoreKey(art)[3] > ScoreKey(art)[1]
    /\ top_articles = << 3, 1 >>

\* C17: after ingestion no two articles of the working set have the same
\* link, so no two payloads handed to the endpoint have the same url; and an
\* article's link is never changed by a later stage.
C17_OneArticlePerLink ==
    /\ \A i, j \in 1..Len(raw_articles) :
          i # j => art[raw_articles[i]].link # art[raw_articles[j]].link
    /\ \A i, j \in 1..Len(posts) :
          posts[i].article # posts[j].article => posts[i].payload.url # posts[j].payload.url

\* the gate left article j of raw_articles out
Excluded(j) == raw_articles[j] \notin Range(new_articles)

\* a later run whose gate has run with a query that succeeded
LaterGate == run > 1 /\ After1_5 /\ QueryOk

\* the links the model stages of this run were given
SentToModels ==
    UNION { LinksOf(filter_calls[k].batch) : k \in 1..Len(filter_calls) }
    \cup { art[score_calls[j].article].link : j \in 1..Len(score_calls) }

\* C18 as stated: an article that went through the relevance filter and the
\* scorer in an earlier run is excluded by the gate of a later run whose
\* query succeeds.
C18_ProcessedIsExcluded ==
    LaterGate =>
        \A j \in 1..Len(raw_articles) :
            art[raw_articles[j]].link \in hist.scored => Excluded(j)

\* C18 amended: an article whose remote write succeeded in an earlier run is
\* excluded by the gate of a later run whose query succeeds, and is given
\* neither to the relevance filter nor to the scorer again.
C18_SavedIsExcluded ==
    LaterGate =>
        /\ \A j \in 1..Len(raw_articles) :
              art[raw_articles[j]].link \in hist.saved => Excluded(j)
        /\ SentToModels \cap hist.saved = {}

\* C18 witness: the second run leaves out an article the first run saved and
\* hands another one to the models
C18_Witness ==
    /\ LaterGate /\ After2
    /\ \E j \in 1..Len(raw_articles) :
          art[raw_articles[j]].link \in hist.saved /\ Excluded(j)
    /\ SentToModels # {}

ExistingUsed == IF QueryOk THEN db_queries[1].urls ELSE {}

\* article a went through every gate of this run
Survived(a) ==
    /\ art[a].link \notin ExistingUsed
    /\ a \in Range(new_articles)
    /\ a \in Range(filtered_articles)
    /\ a \in Range(scraped_articles)
    /\ {"scraped_content", "content"} \subseteq art[a].keys
    /\ art[a].content >= MinContentLength
    /\ a \in Range(scored_articles)
    /\ {"ai_score", "ai_summary", "score_breakdown"} \subseteq art[a].keys
    /\ \E j \in 1..Len(score_calls) :
          score_calls[j].article = a /\ score_calls[j].ok /\ score_calls[j].resp = "valid"

\* C20: every article handed to the endpoint or written to the snapshot went
\* through every gate of its run: its link was not in the existing-set the
\* gate used, the relevance filter output it, its extracted text has at least
\* the minimum length, and it carries score, breakdown and summary of a valid
\* scoring response.
C20_PersistedPassedEveryGate ==
    /\ \A j \in 1..Len(posts) : Survived(posts[j].article)
    /\ \A j \in 1..Len(snapshot.top_articles) : Survived(snapshot.top_articles[j])

\* C20 witness: of two articles one was left out by the gate; the other was
\* saved and is in the snapshot
C20_Witness ==
    /\ pc = "return_190"
    /\ Len(raw_articles) = 2 /\ Len(new_articles) = 1
    /\ Len(posts) = 1 /\ posts[1].saved
    /\ snapshot.written /\ snapshot.top_articles = << posts[1].article >>

\* article b is article a with nothing but new fields: what ingestion,
\* extraction, scoring and the image stage have set in a is the same in b
FieldsKept(a, b) ==
    /\ b.title = a.title /\ b.link = a.link /\ b.source = a.source
    /\ b.published = a.published /\ b.summary = a.summary
    /\ a.keys \subseteq b.keys
    /\ "content" \in a.keys => b.content = a.content /\ b.top_image = a.top_image
    /\ "ai_score" \in a.keys =>
          /\ b.ai_score = a.ai_score /\ b.ai_summary = a.ai_summary
          /\ b.score_breakdown = a.score_breakdown
    /\ "imageUrl" \in a.keys => b.image = a.image

\* C21: no stage rewrites or removes a field an earlier stage set: link,
\* source, title, published and summary of ingestion, the content of
\* extraction, the score, breakdown and summary of scoring and the display
\* image stay as they are through every later stage; the scorer truncates
\* only the text of its prompt.
C21_FieldsOnlyAdded ==
    [][\A id \in DOMAIN art : id \in DOMAIN art' /\ FieldsKept(art[id], art'[id])]_vars

\* C21 witness: an article whose text is longer than the scorer's window was
\* scored with a truncated prompt and given an image, and still has its text
C21_Witness ==
    /\ pc = "step6"
    /\ \E j \in 1..Len(score_calls) :
          LET id == score_calls[j].article
          IN  /\ score_calls[j].prompt = MaxContentChars + 3
              /\ art[id].content = MaxContentChars + 1
              /\ {"content", "ai_score", "imageUrl"} \subseteq art[id].keys

\* the statistics are the sizes of the lists the run has built
StatsAreSizes ==
    /\ stats.rss_articles_found = Len(raw_articles)
    /\ stats.new_articles = Len(new_articles)
    /\ stats.filtered_articles = Len(filtered_articles)
    /\ stats.scraped_articles = Len(scraped_articles)
    /\ stats.scored_articles = Len(scored_articles)
    /\ stats.top_articles_count = Len(top_articles)

\* C22: a fatal error ends the run where it happened: the run returns with
\* the error recorded and the statistics gathered up to then, no stage after
\* the failing one has run, no remote write and no snapshot was made, and the
\* process exits with a non-zero status; a run that returns without a fatal
\* error has no error recorded and exits with status 0.
C22_FatalAborts ==
    /\ pc = "return_196" =>
          /\ stats.errors = 1 /\ main(stats) # 0
          /\ StatsAreSizes /\ stats.saved_to_database = 0
          /\ posts = << >> /\ snapshot = NoSnapshot
          /\ top_articles = << >> => image_calls = << >>
          /\ raw_articles = << >> =>
                /\ db_queries = << >> /\ filter_calls = << >>
                /\ scrape_calls = << >> /\ score_calls = << >>
    /\ pc # "return_196" => stats.errors = 0
    /\ pc \in Returns \ {"return_196"} => main(stats) = 0

\* C22 witness: the run was aborted after scoring two articles and selecting
\* them, with the counts up to then in the statistics and no write made
C22_Witness ==
    /\ pc = "return_196"
    /\ stats.scored_articles = 2 /\ stats.top_articles_count = 2
    /\ stats.errors = 1 /\ main(stats) = 1
    /\ posts = << >> /\ ~snapshot.attempted

\* no two records of a list of calls are about the same article
OncePerArticle(calls) ==
    \A i, j \in 1..Len(calls) : i # j => calls[i].article # calls[j].article

\* C23: within a run every batch of the relevance filter gets one model
\* call, and no article gets a second page fetch by the same strategy, a
\* second scoring call or a second remote write; in particular an article
\* whose call failed is not given to that stage again.
C23_NoRetries ==
    /\ After2 => Len(filter_calls) = NumBatches(Len(new_articles), BatchSize)
    /\ OncePerArticle(scrape_calls)
    /\ OncePerArticle(score_calls)
    /\ OncePerArticle(posts)

\* what source k lists, as records of the ingested set
ListedBy(feeds, k) ==
    [i \in 1..Len(feeds[k].entries) |->
        [title |-> feeds[k].entries[i].title, link |-> feeds[k].entries[i].link, source |-> k]]

\* C24: fetch_all_feeds called on a list of sources returns whatever fetch
\* raises: before the title de-duplication the ingested set holds nothing of
\* a source whose fetch raised and, in source order, every entry of every
\* source that was fetched.
C24_SourceIsolation ==
    pc = "called_fetch_all_feeds" =>
        LET feeds == hist.feeds
        IN  /\ \A k \in 1..Len(feeds) :
                  SelectSeq(all_articles, LAMBDA e : e.source = k)
                     = IF feeds[k].raises THEN << >> ELSE ListedBy(feeds, k)
            /\ \A i, j \in 1..Len(all_articles) :
                  i < j => all_articles[i].source <= all_articles[j].source
            /\ \A i \in 1..Len(all_articles) : all_articles[i].source \in 1..Len(feeds)

\* C24 witness: the first source failed while listing an entry, the second
\* was fetched, and its two entries are the ingested set
C24_Witness ==
    /\ pc = "called_fetch_all_feeds"
    /\ hist.feeds[1].raises /\ Len(hist.feeds[1].entries) = 1
    /\ ~hist.feeds[2].raises /\ Len(hist.feeds[2].entries) = 2
    /\ all_articles = ListedBy(hist.feeds, 2)

\* two titles are the same words in the same case-blind spelling once all
\* whitespace is normalised (runs inside the title as well as its ends)
SameAfterNormalising(t, u) == t.base = u.base

\* two titles are the same once case and the whitespace at their ends are
\* left aside; whitespace inside the title counts
SameAfterStrip(t, u) == t.base = u.base /\ (t.form = "spaced") = (u.form = "spaced")

\* the articles fetch_all_feeds returned, as records of the ingested set
KeptEntries ==
    [i \in 1..Len(raw_articles) |->
        [ title |-> art[raw_articles[i]].title, link |-> art[raw_articles[i]].link,
          source |-> art[raw_articles[i]].source ]]

\* the places of the ingested set that hold the first article of their title
FirstPlaces ==
    { p \in 1..Len(all_articles) :
        \A q \in 1..(p - 1) : ~SameAfterStrip(all_articles[q].title, all_articles[p].title) }

\* the i-th smallest element of a set of numbers
NthOf(S, i) == CHOOSE p \in S : Cardinality({ q \in S : q <= p }) = i

\* C25 as stated: after ingestion no two articles have titles that are equal
\* without regard to case once whitespace is normalised.
C25_NoTwoEqualTitles ==
    pc = "called_fetch_all_feeds" =>
        \A i, j \in 1..Len(KeptEntries) :
            i # j => ~SameAfterNormalising(KeptEntries[i].title, KeptEntries[j].title)

\* C25 amended: after ingestion no two articles have titles that are equal
\* without regard to case and to leading and trailing whitespace (whitespace
\* inside a title is compared as written); of the articles sharing such a
\* title the first in feed order is kept, the kept ones stay in input order,
\* and de-duplicating the result again changes nothing.
C25_DedupByStrippedTitle ==
    pc = "called_fetch_all_feeds" =>
        LET kept == KeptEntries
            firsts == FirstPlaces
        IN  /\ \A i, j \in 1..Len(kept) :
                  i # j => ~SameAfterStrip(kept[i].title, kept[j].title)
            /\ Len(kept) = Cardinality(firsts)
            /\ \A i \in 1..Len(kept) : kept[i] = all_articles[NthOf(firsts, i)]
            /\ deduplicate_articles(kept) = kept

\* C25 witness: one title listed three times, in another case, with padding
\* and with a doubled blank inside: the first and the last are kept
C25_Witness ==
    /\ pc = "called_fetch_all_feeds"
    /\ Len(all_articles) = 3
    /\ \A p \in 1..3 : all_articles[p].title.base = 1
    /\ all_articles[1].title.form = "caps" /\ all_articles[2].title.form = "padded"
    /\ all_articles[3].title.form = "spaced"
    /\ KeptEntries = << all_articles[1], all_articles[3] >>

\* ---------------------------------------------------------------- C26
ImageFields == {"ai_generated_image", "imageUrl"}

\* the image generation of article i failed: the image call failed, or the
\* handler raised before it
GenerationFailed(i) == args.answers[i].image = "failed" \/ art[i].ai_summary = "null"

\* C26: generate_batch returns the ranked articles it was given, in the same
\* order, whichever of the scene call, the image call and the download
\* failed; an article whose generation failed carries its extracted top
\* image if it has one and no image field otherwise, and every other
\* article carries the generated image.
C26_ImageStageNeverDrops ==
    pc = "called_generate_batch" =>
        /\ top_articles = [i \in 1..Len(args.answers) |-> i]
        /\ \A i \in 1..Len(top_articles) :
            IF GenerationFailed(i)
            THEN IF art[i].top_image
                 THEN ImageFields \subseteq art[i].keys /\ art[i].image = "top_image"
                 ELSE ImageFields \cap art[i].keys = {}
            ELSE ImageFields \subseteq art[i].keys /\ art[i].image = args.answers[i].image

C26_Witness ==
    /\ pc = "called_generate_batch"
    /\ Len(top_articles) = 3
    /\ \E i, j, k \in 1..3 :
        /\ GenerationFailed(i) /\ ~art[i].top_image /\ ImageFields \cap art[i].keys = {}
        /\ GenerationFailed(j) /\ art[j].top_image /\ art[j].image = "top_image"
        /\ args.answers[k].scene = "failed" /\ args.answers[k].image = "remote"
        /\ art[k].image = "remote"

\* ---------------------------------------------------------------- C27
\* C27: the scheduler process outlives every run: whatever the outcome of
\* the run job started, the process does not end with it, and stays in its
\* loop to start the aggregator again.
C27_SchedulerOutlivesRuns == pc \notin {"exit_0", "exit_1"}

\* ---------------------------------------------------------------- C28
\* the places of an index list that name an article of a batch of n
InRangePlaces(items, n) ==
    { j \in 1..Len(items) : items[j].k \in {"int", "str"} /\ items[j].v >= 0 /\ items[j].v < n }

\* C28: for every batch whose response parses to an index list, the batch
\* returns exactly the articles at the in-range indices, one per such index
\* and in the order of the list; a negative index or one >= the batch length
\* selects nothing and changes nothing else.
C28_OutOfRangeIgnored ==
    pc = "called_filter_articles" =>
        \A k \in 1..Len(filter_calls) :
            args.answers[k].t = "list" =>
                LET items == args.answers[k].items
                    batch == filter_calls[k].batch
                    out == filter_calls[k].out
                    places == InRangePlaces(items, Len(batch))
                IN  /\ Len(out) = Cardinality(places)
                    /\ \A j \in places :
                          out[Cardinality({ i \in places : i <= j })] = batch[items[j].v + 1]

C28_Witness ==
    /\ pc = "called_filter_articles"
    /\ \E k \in 1..Len(filter_calls) :
        LET items == args.answers[k].items
            batch == filter_calls[k].batch
        IN  /\ args.answers[k].t = "list"
            /\ Len(batch) >= 2
            /\ \E i, j \in 1..Len(items) :
                /\ items[i].k = "int" /\ items[i].v >= Len(batch)
                /\ items[j].k = "int" /\ items[j].v = 1
                /\ filter_calls[k].out = << batch[2] >>
            /\ filtered_articles # << >>

\* ---------------------------------------------------------------- C29
\* the slots of the batch whose own extraction gave enough text
SurvivingSlots ==
    { j \in 1..Len(scrape_calls) :
        /\ scrape_calls[j].url > 0
        /\ \/ scrape_calls[j].s1 >= MinContentLength
           \/ scrape_calls[j].s2 >= MinContentLength }

\* C29: an exception in a strategy is that strategy's failure for that
\* article only: after an exception in strategy 1, strategy 2 still runs;
\* scrape_batch goes through every article of the batch and returns, and
\* whether an article survives depends on its own two strategies alone.
C29_ExtractionFailuresLocal ==
    scrape_calls # << >> =>
        /\ pc # "step3"
        /\ Len(scrape_calls) = Len(articles_to_scrape)
        /\ \A j \in 1..Len(scrape_calls) :
            /\ scrape_calls[j].article = articles_to_scrape[j]
            /\ scrape_calls[j].ok <=> j \in SurvivingSlots
            /\ (scrape_calls[j].url > 0 /\ scrape_calls[j].s1 = Raised) => 2 \in scrape_calls[j].tried
        /\ Len(scraped_articles) = Cardinality(SurvivingSlots)
        /\ \A j \in SurvivingSlots :
            scraped_articles[Cardinality({ i \in SurvivingSlots : i <= j })] = articles_to_scrape[j]

C29_Witness ==
    /\ pc = "step4"
    /\ \E i, j \in 1..Len(scrape_calls) :
        /\ scrape_calls[j].s1 = Raised /\ scrape_calls[j].s2 = Raised
        /\ scrape_calls[j].tried = {1, 2} /\ ~scrape_calls[j].ok
        /\ i > j /\ scrape_calls[i].ok
        /\ scraped_articles = << articles_to_scrape[i] >>

\* ---------------------------------------------------------------- C30
\* no content fetch, no scoring or image model call, no remote write
NoPaidWork ==
    scrape_calls = << >> /\ score_calls = << >> /\ image_calls = << >> /\ posts = << >>

\* C30: an empty result of ingestion, of the deduplication against the
\* datastore or of the relevance filter ends the run there: the run returns
\* its statistics with no error, having made no content fetch, no scoring or
\* image call and no remote write (and, where ingestion was empty, no
\* datastore query and no filter call either); the datastore is queried at
\* most once in a run.
C30_EmptyStageStopsPaidWork ==
    /\ Len(db_queries) <= 1
    /\ raw_articles = << >> => pc \in {"step1", "return_106", "return_196"}
    /\ new_articles = << >> =>
          pc \in {"step1", "step1_5", "return_106", "return_118", "return_196"}
    /\ filtered_articles = << >> =>
          pc \in {"step1", "step1_5", "step2", "return_106", "return_118", "return_128",
                  "return_196"}
    /\ pc \in {"return_106", "return_118", "return_128"} =>
          NoPaidWork /\ stats.errors = 0
    /\ pc = "return_106" => raw_articles = << >> /\ db_queries = << >> /\ filter_calls = << >>
    /\ pc = "return_118" => new_articles = << >> /\ filter_calls = << >>
    /\ pc = "return_128" => filtered_articles = << >>

C30_Witness ==
    /\ pc = "return_128"
    /\ raw_articles # << >> /\ new_articles # << >> /\ filtered_articles = << >>
    /\ Len(db_queries) = 1 /\ filter_calls # << >>
    /\ NoPaidWork /\ stats.errors = 0

====
